---- MODULE Spec2Model ----
(***************************************************************************)
(* The device tracker server (src/server/main.go): the in-memory registry  *)
(* s.devices behind s.mutex (a sync.RWMutex), the request handlers, and    *)
(* the detached saveDevices goroutines that write the snapshot file, the   *)
(* loading of that file at startup, and the connection commands that the   *)
(* pages (src/server/main.go, src/unnamed/part_001) and the /ssh-command   *)
(* handler derive from a record; and the agent (src/ip_monitor.sh) that    *)
(* reports a host's addresses to the server.                               *)
(***************************************************************************)
EXTENDS Integers, Sequences, FiniteSets, TLC

VARIABLES
    booted,     \* FALSE until NewServer has run loadDevices
    devices,    \* s.devices: hostname -> DeviceInfo
    devicesNil, \* s.devices is the nil map (it has no entries and takes none)
    file,       \* s.dataFile: whether it exists, and its content as JSON tokens
    wmu,        \* s.mutex: the writer that holds or awaits the lock, or NoWriter
    readers,    \* s.mutex: the goroutines that hold a read lock
    pc,         \* position of every goroutine (handlers and saves)
    req,        \* the request a handler goroutine is serving
    frame,      \* the handler's local variables
    resp,       \* the response a handler has written
    saveData,   \* saveDevices: the local variable data
    now,        \* the wall clock, in seconds since the process started
    applied,    \* history: per hostname, the update of the last map write
    hist,       \* history: every value s.devices has held
    spawned,    \* history: per save, the update that spawned it
    agent       \* the reporting agent (src/ip_monitor.sh) on one host

vars == <<booted, devices, devicesNil, file, wmu, readers, pc, req, frame, resp, saveData,
          now, applied, hist, spawned, agent>>

\* The variables of the server.
serverVars == <<booted, devices, devicesNil, file, wmu, readers, pc, req, frame, resp,
                saveData, now, applied, hist, spawned>>

NoWriter == 0

-----------------------------------------------------------------------------
(* Bounds of the model *)

NTasks == 2         \* concurrent request handlers
MaxSaves == 2       \* accepted updates (each spawns one save)
MaxClock == 1       \* clock ticks
MaxReads == 1       \* read requests in flight at a time

Tasks == 1..NTasks
SaveIds == (NTasks + 1)..(NTasks + MaxSaves)
Procs == Tasks \cup SaveIds

-----------------------------------------------------------------------------
(* Values *)

HostOrder == <<"h1", "h2">>          \* hostnames, in the order json sorts keys
Hostnames == {HostOrder[i] : i \in 1..Len(HostOrder)}

\* A timestamp string: <<>> is "", a 7-tuple is "Y-M-D<sep>h:m:s", anything
\* else is free text.
TsEmpty == <<>>
TsGood == <<2024, 5, 17, " ", 10, 30, 0>>
TsIso == <<2024, 5, 17, "T", 10, 30, 0>>
TsBadMonth == <<2024, 13, 17, " ", 10, 30, 0>>
TsText == <<"not-a-date">>

\* Seconds of a civil date and time on a fixed linear scale that starts with
\* the year 2000.
CivilSeconds(Y, M, D, h, m, s) ==
    (((((Y - 2000) * 12 + M) * 31 + D) * 24 + h) * 60 + m) * 60 + s

BootSeconds == CivilSeconds(2024, 6, 1, 0, 0, 0)

\* time.Time: the zero value, and what time.Now returns at clock reading n
\* (a wall reading in the local zone plus a monotonic reading).
ZeroTime == [sec |-> 0, mono |-> FALSE, loc |-> "UTC"]
TimeNow(n) == [sec |-> BootSeconds + n, mono |-> TRUE, loc |-> "Local"]

DaysIn(Y, M) ==
    IF M \in {4, 6, 9, 11} THEN 30
    ELSE IF M = 2 THEN (IF Y % 4 = 0 /\ (Y % 100 # 0 \/ Y % 400 = 0) THEN 29 ELSE 28)
    ELSE 31

\* time.Parse("2006-01-02 15:04:05", ts): the value and whether err == nil.
\* On an error the value is the zero Time.
TimeParse(ts) ==
    IF /\ Len(ts) = 7
       /\ ts[4] = " "
       /\ ts[2] \in 1..12
       /\ ts[3] \in 1..DaysIn(ts[1], ts[2])
       /\ ts[5] \in 0..23 /\ ts[6] \in 0..59 /\ ts[7] \in 0..59
    THEN [ok |-> TRUE,
          t |-> [sec |-> CivilSeconds(ts[1], ts[2], ts[3], ts[5], ts[6], ts[7]),
                 mono |-> FALSE, loc |-> "UTC"]]
    ELSE [ok |-> FALSE, t |-> ZeroTime]

\* The keys of a report body. A key that is absent and a key whose value is ""
\* decode alike, so a body gives every key a string; ok = FALSE is a body that
\* json cannot decode into DeviceUpdate.
EmptyBody ==
    [ok |-> TRUE, hostname |-> "", computerName |-> "", localIp |-> "",
     publicIp |-> "", ipv4Local |-> "", ipv4Public |-> "", ipv6Local |-> "",
     ipv6Public |-> "", sshPort |-> "", sshStatus |-> "", currentUser |-> "",
     timestamp |-> TsEmpty, userAgent |-> "", remoteAddress |-> ""]

Body(over) == [k \in DOMAIN EmptyBody |-> IF k \in DOMAIN over THEN over[k] ELSE EmptyBody[k]]

\* DeviceUpdate as json.Decode fills it: only the tagged keys are read.
DecodeUpdate(body) ==
    [Hostname |-> body.hostname,
     ComputerName |-> body.computerName,
     LocalIP |-> body.localIp,
     PublicIP |-> body.publicIp,
     SSHPort |-> body.sshPort,
     SSHStatus |-> body.sshStatus,
     CurrentUser |-> body.currentUser,
     Timestamp |-> body.timestamp]


-----------------------------------------------------------------------------
(* handleUpdate: validation, timestamp, the record *)

\* The validation of handleUpdate: TRUE when the update is refused.
MissingRequiredMutant(update) == update.LocalIP = "" /\ update.PublicIP = ""
MissingRequiredBothMutant(update) ==
    update.Hostname = "" /\ (update.LocalIP = "" /\ update.PublicIP = "")
MissingRequired(update) ==
    update.Hostname = "" \/ (update.LocalIP = "" /\ update.PublicIP = "")

\* The status handleUpdate answers before it touches the registry, 0 when the
\* update goes on to the registry.
EarlyStatusMutant(r) ==
    IF ~r.body.ok THEN 400
    ELSE IF MissingRequired(DecodeUpdate(r.body)) THEN 400
    ELSE 0
EarlyStatus(r) ==
    IF r.method # "POST" THEN 405
    ELSE IF ~r.body.ok THEN 400
    ELSE IF MissingRequired(DecodeUpdate(r.body)) THEN 400
    ELSE 0

\* "Parse timestamp or use current time", at clock reading n.
LastUpdateOfMutant(update, n) ==
    IF update.Timestamp # TsEmpty
    THEN TimeParse(update.Timestamp).t
    ELSE TimeNow(n)
LastUpdateOf(update, n) ==
    IF update.Timestamp # TsEmpty
    THEN IF TimeParse(update.Timestamp).ok
         THEN TimeParse(update.Timestamp).t
         ELSE TimeNow(n)
    ELSE TimeNow(n)

\* The DeviceInfo literal that handleUpdate stores.
NewDeviceInfoMutant(update, lastUpdate, r) ==
    [ComputerName |-> update.ComputerName,
     LocalIP |-> update.LocalIP,
     PublicIP |-> update.PublicIP,
     SSHPort |-> update.SSHPort,
     SSHStatus |-> update.SSHStatus,
     CurrentUser |-> update.CurrentUser,
     LastUpdate |-> lastUpdate,
     UserAgent |-> IF r.body.userAgent # "" THEN r.body.userAgent ELSE r.ua,
     RemoteAddress |-> IF r.body.remoteAddress # "" THEN r.body.remoteAddress ELSE r.ra]
NewDeviceInfo(update, lastUpdate, r) ==
    [ComputerName |-> update.ComputerName,
     LocalIP |-> update.LocalIP,
     PublicIP |-> update.PublicIP,
     SSHPort |-> update.SSHPort,
     SSHStatus |-> update.SSHStatus,
     CurrentUser |-> update.CurrentUser,
     LastUpdate |-> lastUpdate,
     UserAgent |-> r.ua,
     RemoteAddress |-> r.ra]

\* A Go map with key h set to v.
MapSetAllMutant(m, h, v) == [k \in DOMAIN m \cup {h} |-> v]
MapSet(m, h, v) ==
    [k \in DOMAIN m \cup {h} |-> IF k = h THEN v ELSE m[k]]

\* s.devices[update.Hostname] = DeviceInfo{...}
StoreDeviceMergeMutant(m, h, v) ==
    IF h \in DOMAIN m
    THEN MapSet(m, h, [f \in DOMAIN v |->
                         IF f \in {"ComputerName", "LocalIP", "PublicIP", "SSHPort",
                                   "SSHStatus", "CurrentUser"} /\ v[f] = ""
                         THEN m[h][f] ELSE v[f]])
    ELSE MapSet(m, h, v)
StoreDeviceClobberMutant(m, h, v) == [k \in {h} |-> v]
StoreDeviceNewestMutant(m, h, v) ==
    IF h \in DOMAIN m /\ m[h].LastUpdate.sec > v.LastUpdate.sec THEN m
    ELSE MapSet(m, h, v)
StoreDeviceExpireMutant(m, h, v) ==
    [k \in {h} \cup {g \in DOMAIN m : m[g].LastUpdate.sec >= v.LastUpdate.sec} |->
        IF k = h THEN v ELSE m[k]]
StoreDevice(m, h, v) == MapSet(m, h, v)

-----------------------------------------------------------------------------
(* saveDevices and loadDevices: the snapshot file *)

\* time.Time.MarshalJSON: RFC 3339 text, which carries the wall reading and
\* the zone offset and no monotonic reading.
MarshalTime(t) == [sec |-> t.sec, zone |-> IF t.loc = "UTC" THEN "Z" ELSE "+offset"]

\* The JSON object of one DeviceInfo, by its json tags.
MarshalInfo(d) ==
    [computerName |-> d.ComputerName, localIp |-> d.LocalIP,
     publicIp |-> d.PublicIP, sshPort |-> d.SSHPort, sshStatus |-> d.SSHStatus,
     currentUser |-> d.CurrentUser, lastUpdate |-> MarshalTime(d.LastUpdate),
     userAgent |-> d.UserAgent, remoteAddress |-> d.RemoteAddress]

NoJson == MarshalInfo(NewDeviceInfo(DecodeUpdate(EmptyBody), ZeroTime, [body |-> EmptyBody, ua |-> "", ra |-> ""]))
OpenTok == [tok |-> "{", key |-> "", val |-> NoJson]
CloseTok == [tok |-> "}", key |-> "", val |-> NoJson]
EntryTok(h, d) == [tok |-> "entry", key |-> h, val |-> MarshalInfo(d)]

RECURSIVE MarshalEntries(_, _)
MarshalEntries(m, i) ==
    IF i > Len(HostOrder) THEN <<>>
    ELSE (IF HostOrder[i] \in DOMAIN m
          THEN <<EntryTok(HostOrder[i], m[HostOrder[i]])>> ELSE <<>>)
         \o MarshalEntries(m, i + 1)

\* The text null; an entry whose lastUpdate is not an RFC 3339 time; an entry
\* whose value is a number, not an object.
NullTok == [tok |-> "null", key |-> "", val |-> NoJson]
BadTimeTok(h, d) == [tok |-> "badtime", key |-> h, val |-> MarshalInfo(d)]
NumberTok(h) == [tok |-> "number", key |-> h, val |-> NoJson]

\* json.MarshalIndent(s.devices): the whole map, keys sorted.
Marshal(m) == <<OpenTok>> \o MarshalEntries(m, 1) \o <<CloseTok>>

\* os.WriteFile opens the file with O_TRUNC and then writes data at offset 0
\* of its own descriptor: what the file holds after the write.
WriteAt0(content, data) ==
    data \o SubSeq(content, Len(data) + 1, Len(content))

-----------------------------------------------------------------------------
(* s.mutex *)

\* RWMutex.RLock returns at once unless a writer holds or awaits the lock.
RLockBlockedMutant == FALSE
RLockBlocked == wmu # NoWriter

ReadWaitPcs == {"g_rwait", "l_rwait", "s_rwait"}
AfterWait(l) ==
    IF l = "g_rwait" THEN "g_read"
    ELSE IF l = "l_rwait" THEN "l_read"
    ELSE IF l = "s_rwait" THEN "s_marshal"
    ELSE l

\* RWMutex.RLock by goroutine p: it enters its read section or blocks.
RLock(p, readPc, waitPc) ==
    /\ IF RLockBlocked
       THEN /\ pc' = [pc EXCEPT ![p] = waitPc]
            /\ readers' = readers
       ELSE /\ pc' = [pc EXCEPT ![p] = readPc]
            /\ readers' = readers \cup {p}
    /\ UNCHANGED wmu

\* RWMutex.RUnlock by goroutine p.
RUnlock(p, nextPc) ==
    /\ readers' = readers \ {p}
    /\ pc' = [pc EXCEPT ![p] = nextPc]
    /\ UNCHANGED wmu

-----------------------------------------------------------------------------
(* Requests *)

UpdateReq(method, body) ==
    [kind |-> "update", method |-> method, body |-> body,
     ua |-> "curl/8.4", ra |-> "198.51.100.9:50412"]

\* A report in the keys DeviceUpdate names, every field set.
FullReport(h) ==
    Body([hostname |-> h, computerName |-> "Studio", localIp |-> "10.0.0.5",
          publicIp |-> "203.0.113.7", sshPort |-> "2222", sshStatus |-> "active",
          currentUser |-> "ada", timestamp |-> TsGood, userAgent |-> "forged",
          remoteAddress |-> "forged"])

\* A report with one address and nothing else, its timestamp free text.
SparseReport(h) ==
    Body([hostname |-> h, publicIp |-> "203.0.113.9", timestamp |-> TsText])

\* The report ip_monitor.sh sends: the four address keys ipv4Local, ipv4Public,
\* ipv6Local, ipv6Public.
AgentReport(h, a4l, a4p, a6l, a6p) ==
    Body([hostname |-> h, computerName |-> "Studio", ipv4Local |-> a4l,
          ipv4Public |-> a4p, ipv6Local |-> a6l, ipv6Public |-> a6p,
          sshPort |-> "22", sshStatus |-> "active", currentUser |-> "ada",
          timestamp |-> TsGood])

BadBody == [EmptyBody EXCEPT !.ok = FALSE]

\* The update requests of the concurrent specification.
UpdateRequests ==
    {UpdateReq("POST", FullReport("h1")),
     UpdateReq("POST", SparseReport("h1")),
     UpdateReq("POST", SparseReport("h2")),
     UpdateReq("POST", AgentReport("h1", "", "", "", "2001:db8::7"))}

\* The reports of the sequential specification. AddressBodies: every
\* combination of the hostname, the two addresses DeviceUpdate names, the
\* agent's four address keys (none, each one alone, all four), and the other
\* fields all set or all empty. TimestampBodies: every timestamp.
AgentAddresses ==
    {<<"", "", "", "">>, <<"10.0.0.5", "", "", "">>, <<"", "203.0.113.7", "", "">>,
     <<"", "", "fd00::5", "">>, <<"", "", "", "2001:db8::7">>,
     <<"10.0.0.5", "203.0.113.7", "fd00::5", "2001:db8::7">>}

IngestBody(h, l, p, a, ts, full) ==
    Body([hostname |-> h, localIp |-> l, publicIp |-> p,
          ipv4Local |-> a[1], ipv4Public |-> a[2], ipv6Local |-> a[3],
          ipv6Public |-> a[4], timestamp |-> ts,
          computerName |-> IF full THEN "Studio" ELSE "",
          sshPort |-> IF full THEN "2222" ELSE "",
          sshStatus |-> IF full THEN "active" ELSE "",
          currentUser |-> IF full THEN "ada" ELSE ""])

AddressBodies ==
    {IngestBody(h, l, p, a, TsGood, full) :
        h \in {"", "h1"}, l \in {"", "10.0.0.5"}, p \in {"", "203.0.113.7"},
        a \in AgentAddresses, full \in BOOLEAN}

TimestampBodies ==
    {IngestBody(h, "10.0.0.5", "", <<"", "", "", "">>, ts, full) :
        h \in {"", "h1"}, ts \in {TsEmpty, TsGood, TsIso, TsBadMonth, TsText},
        full \in BOOLEAN}

IngestBodies == AddressBodies \cup TimestampBodies

IngestRequests ==
    {UpdateReq("POST", b) : b \in IngestBodies \cup {BadBody}}
    \cup {UpdateReq("GET", FullReport("h1"))}

\* GET /devices/<hostname>, GET /devices and GET <path> (the index page).
GetReq(h) == [kind |-> "get", hostname |-> h]
ListReq == [kind |-> "list", path |-> "/devices"]
IndexReq(path) == [kind |-> "index", path |-> path]

ReadRequests ==
    {GetReq("h1"), GetReq("h2"), GetReq(""), ListReq, IndexReq("/"), IndexReq("/favicon.ico")}

-----------------------------------------------------------------------------
(* State *)

NoFrame == [kind |-> "none"]
NoReq == [kind |-> "none"]
NoResp == [status |-> 0]
NoWrite == [by |-> 0]
NoInfo == NewDeviceInfo(DecodeUpdate(EmptyBody), ZeroTime, [body |-> EmptyBody, ua |-> "", ra |-> ""])
EmptyMap == [k \in {} |-> NoInfo]

\* History of a save: the handler and hostname of the update that spawned it,
\* the registry as of that update (asOf), every value the registry has held
\* from then until the save read it (after), the value the save read (snap),
\* and its place among the saves that completed their write (done, 0 = none).
NoSpawn ==
    [by |-> 0, hostname |-> "", asOf |-> EmptyMap, after |-> {}, snap |-> EmptyMap,
     done |-> 0]

UpdatePcs == {"u_lock", "u_wait", "u_write", "u_respond"}

\* Accepted updates so far: those in a handler that has not yet spawned its
\* save, and the saves spawned. The model takes update requests while they are
\* fewer than MaxSaves.
Accepted ==
    Cardinality({t \in Tasks : pc[t] \in UpdatePcs \ {"u_respond"}})
    + Cardinality({s \in SaveIds : pc[s] # "s_none"})

\* A save that was spawned and has not yet read the registry.
SavePending == {"s_rlock", "s_rwait"}

\* The next save goroutine.
NextSave == CHOOSE s \in SaveIds : pc[s] = "s_none" /\ \A q \in SaveIds : q < s => pc[q] # "s_none"

-----------------------------------------------------------------------------
(* handleUpdate *)

\* What time.Now can return: the clock has not run backwards since the last
\* reading.
ClockReadings == {n \in now..(now + 1) : n <= MaxClock}

\* Whether handleUpdate calls time.Now: the timestamp is empty or does not
\* parse.
ReadsClock(update) ==
    update.Timestamp = TsEmpty \/ ~TimeParse(update.Timestamp).ok

\* Lines 140-167: method, decode, validation and timestamp (time.Now, when it
\* is called, reads n); a refused request is answered here. arrival is history:
\* the update's place in the order of arrival.
UpdateBegin(t, r, n) ==
    /\ booted /\ pc[t] = "idle"
    /\ Accepted < MaxSaves
    /\ req' = [req EXCEPT ![t] = r]
    /\ IF EarlyStatus(r) # 0
       THEN /\ resp' = [resp EXCEPT ![t] = [status |-> EarlyStatus(r)]]
            /\ pc' = [pc EXCEPT ![t] = "done"]
            /\ UNCHANGED <<frame, now>>
       ELSE /\ ReadsClock(DecodeUpdate(r.body)) \/ n = now
            /\ frame' = [frame EXCEPT ![t] =
                   [kind |-> "update", update |-> DecodeUpdate(r.body), at |-> n,
                    lastUpdate |-> LastUpdateOf(DecodeUpdate(r.body), n),
                    arrival |-> Accepted + 1]]
            /\ now' = n
            /\ pc' = [pc EXCEPT ![t] = "u_lock"]
            /\ resp' = resp
    /\ UNCHANGED <<booted, devices, devicesNil, file, wmu, readers, saveData, applied, hist, spawned, agent>>

\* RWMutex.Lock waits for the readers that hold the lock to leave.
LockWaitsMutant == FALSE
LockWaits == readers # {}

\* s.mutex.Lock(): the writer announces itself once no other writer is there,
\* and has the lock at once when no reader holds it.
UpdateLock(t) ==
    /\ pc[t] = "u_lock" /\ wmu = NoWriter
    /\ wmu' = t
    /\ pc' = [pc EXCEPT ![t] = IF LockWaits THEN "u_wait" ELSE "u_write"]
    /\ UNCHANGED <<booted, devices, devicesNil, file, readers, req, frame, resp, saveData, now,
                   applied, hist, spawned, agent>>

\* s.mutex.Lock() returns when the readers that held the lock have left.
UpdateLockAcquire(t) ==
    /\ pc[t] = "u_wait" /\ ~LockWaits
    /\ pc' = [pc EXCEPT ![t] = "u_write"]
    /\ UNCHANGED <<booted, devices, devicesNil, file, wmu, readers, req, frame, resp, saveData,
                   now, applied, hist, spawned, agent>>

\* A Get of hostname h that has not read yet no longer follows the write it
\* started after.
Overtaken(g, h) ==
    /\ pc[g] \in {"g_rlock", "g_rwait", "g_read"}
    /\ req[g].hostname = h

\* Lines 170-185: the map assignment under the write lock, s.mutex.Unlock()
\* (the readers that blocked meanwhile all enter) and go s.saveDevices().
\* An assignment to an entry of the nil map panics: net/http recovers the panic
\* and ends the handler's goroutine, which has not unlocked s.mutex and writes
\* no response.
UpdateWrite(t) ==
    /\ pc[t] = "u_write"
    /\ IF devicesNil
       THEN /\ pc' = [pc EXCEPT ![t] = "u_panic"]
            /\ UNCHANGED <<devices, applied, hist, frame, wmu, readers, spawned, agent>>
       ELSE /\ devices' = StoreDevice(devices, frame[t].update.Hostname,
                                      NewDeviceInfo(frame[t].update, frame[t].lastUpdate, req[t]))
            /\ applied' = [applied EXCEPT ![frame[t].update.Hostname] =
                              [by |-> t, update |-> frame[t].update, ua |-> req[t].ua,
                               ra |-> req[t].ra, at |-> frame[t].at, acked |-> FALSE]]
            /\ hist' = hist \cup {devices'}
            /\ spawned' = [s \in SaveIds |->
                             IF s = NextSave
                             THEN [by |-> t, hostname |-> frame[t].update.Hostname,
                                   asOf |-> devices', after |-> {devices'},
                                   snap |-> EmptyMap, done |-> 0]
                             ELSE IF pc[s] \in SavePending
                             THEN [spawned[s] EXCEPT !.after = @ \cup {devices'}]
                             ELSE spawned[s]]
            /\ frame' = [g \in Tasks |->
                           IF Overtaken(g, frame[t].update.Hostname)
                           THEN [frame[g] EXCEPT !.pre = FALSE] ELSE frame[g]]
            /\ wmu' = NoWriter
            /\ readers' = readers \cup {p \in Procs : pc[p] \in ReadWaitPcs}
            /\ pc' = [p \in Procs |->
                        IF p = t THEN "u_respond"
                        ELSE IF p = NextSave THEN "s_rlock"
                        ELSE AfterWait(pc[p])]
    /\ UNCHANGED <<booted, devicesNil, file, req, resp, saveData, now, agent>>

\* Lines 190-193: the success response.
UpdateRespondAfterSaveMutant(t) ==
    /\ pc[t] = "u_respond"
    /\ \A s \in SaveIds : pc[s] \in {"s_none", "s_done"}
    /\ resp' = [resp EXCEPT ![t] = [status |-> 200]]
    /\ applied' = [h \in Hostnames |->
                     IF applied[h].by = t /\ h = frame[t].update.Hostname
                     THEN [applied[h] EXCEPT !.acked = TRUE] ELSE applied[h]]
    /\ pc' = [pc EXCEPT ![t] = "done"]
    /\ UNCHANGED <<booted, devices, devicesNil, file, wmu, readers, req, frame, saveData, now, hist, spawned, agent>>
UpdateRespond(t) ==
    /\ pc[t] = "u_respond"
    /\ resp' = [resp EXCEPT ![t] = [status |-> 200]]
    /\ applied' = [h \in Hostnames |->
                     IF applied[h].by = t /\ h = frame[t].update.Hostname
                     THEN [applied[h] EXCEPT !.acked = TRUE] ELSE applied[h]]
    /\ pc' = [pc EXCEPT ![t] = "done"]
    /\ UNCHANGED <<booted, devices, devicesNil, file, wmu, readers, req, frame, saveData, now, hist, spawned, agent>>

\* The handler returns; its goroutine serves the next request.
Return(t) ==
    /\ pc[t] = "done"
    /\ pc' = [pc EXCEPT ![t] = "idle"]
    /\ req' = [req EXCEPT ![t] = NoReq]
    /\ frame' = [frame EXCEPT ![t] = NoFrame]
    /\ resp' = [resp EXCEPT ![t] = NoResp]
    /\ UNCHANGED <<booted, devices, devicesNil, file, wmu, readers, saveData, now, applied, hist, spawned, agent>>

-----------------------------------------------------------------------------
(* handleGetDevice, handleListDevices, handleIndex *)

\* Whether the last write of hostname h has been answered: a Get that starts
\* now starts after that Upsert was acknowledged.
Acknowledged(h) == h \in Hostnames /\ applied[h].by # 0 /\ applied[h].acked

ReadPcs == {"g_rlock", "g_rwait", "g_read", "l_rlock", "l_rwait", "l_read"}
Reading == Cardinality({t \in Tasks : pc[t] \in ReadPcs})

\* Lines 208-212: the hostname of the path; none is a bad request.
GetBegin(t, r) ==
    /\ booted /\ pc[t] = "idle" /\ r.kind = "get"
    /\ Reading < MaxReads
    /\ req' = [req EXCEPT ![t] = r]
    /\ IF r.hostname = ""
       THEN /\ resp' = [resp EXCEPT ![t] = [status |-> 400]]
            /\ pc' = [pc EXCEPT ![t] = "done"]
            /\ frame' = frame
       ELSE /\ frame' = [frame EXCEPT ![t] =
                   [kind |-> "get", pre |-> Acknowledged(r.hostname),
                    expect |-> IF Acknowledged(r.hostname)
                               THEN applied[r.hostname] ELSE NoWrite]]
            /\ pc' = [pc EXCEPT ![t] = "g_rlock"]
            /\ resp' = resp
    /\ UNCHANGED <<booted, devices, devicesNil, file, wmu, readers, saveData, now, applied, hist, spawned, agent>>

\* s.mutex.RLock()
GetRLock(t) ==
    /\ pc[t] = "g_rlock"
    /\ RLock(t, "g_read", "g_rwait")
    /\ UNCHANGED <<booted, devices, devicesNil, file, req, frame, resp, saveData, now, applied, hist, spawned, agent>>

\* device, exists := s.devices[hostname]
MapGetZeroMutant(m, h) ==
    [exists |-> TRUE, device |-> IF h \in DOMAIN m THEN m[h] ELSE NoInfo]
MapGet(m, h) ==
    IF h \in DOMAIN m THEN [exists |-> TRUE, device |-> m[h]]
    ELSE [exists |-> FALSE, device |-> NoInfo]

\* Lines 215-227: the lookup, s.mutex.RUnlock() and the response.
GetRead(t) ==
    /\ pc[t] = "g_read"
    /\ resp' = [resp EXCEPT ![t] =
          IF MapGet(devices, req[t].hostname).exists
          THEN [status |-> 200, device |-> MapGet(devices, req[t].hostname).device]
          ELSE [status |-> 404]]
    /\ RUnlock(t, "done")
    /\ UNCHANGED <<booted, devices, devicesNil, file, req, frame, saveData, now, applied, hist, spawned, agent>>

\* handleIndex answers any path but "/" with 404; handleListDevices and the
\* index of "/" go on to s.mutex.RLock().
ListBegin(t, r) ==
    /\ booted /\ pc[t] = "idle" /\ r.kind \in {"list", "index"}
    /\ Reading < MaxReads
    /\ req' = [req EXCEPT ![t] = r]
    /\ IF r.kind = "index" /\ r.path # "/"
       THEN /\ resp' = [resp EXCEPT ![t] = [status |-> 404]]
            /\ pc' = [pc EXCEPT ![t] = "done"]
            /\ frame' = frame
       ELSE /\ pc' = [pc EXCEPT ![t] = "l_rlock"]
            /\ frame' = [frame EXCEPT ![t] = [kind |-> "list", i |-> 1, acc |-> EmptyMap]]
            /\ resp' = resp
    /\ UNCHANGED <<booted, devices, devicesNil, file, wmu, readers, saveData, now, applied, hist, spawned, agent>>

\* s.mutex.RLock()
ListRLock(t) ==
    /\ pc[t] = "l_rlock"
    /\ RLock(t, "l_read", "l_rwait")
    /\ UNCHANGED <<booted, devices, devicesNil, file, req, frame, resp, saveData, now, applied, hist, spawned, agent>>

\* What the walk has read once it has passed key h of map m.
Walked(acc, m, h) == IF h \in DOMAIN m THEN MapSet(acc, h, m[h]) ELSE acc

\* The encoder (or the template) walks s.devices key by key and writes what
\* it reads into the response; after the last key the deferred
\* s.mutex.RUnlock() runs.
ListRead(t) ==
    /\ pc[t] = "l_read"
    /\ frame' = [frame EXCEPT ![t].i = @ + 1,
                              ![t].acc = Walked(@, devices, HostOrder[frame[t].i])]
    /\ IF frame[t].i < Len(HostOrder)
       THEN UNCHANGED <<pc, readers, wmu, resp>>
       ELSE /\ resp' = [resp EXCEPT ![t] = [status |-> 200, devices |-> frame'[t].acc]]
            /\ RUnlock(t, "done")
    /\ UNCHANGED <<booted, devices, devicesNil, file, req, saveData, now, applied, hist, spawned, agent>>

-----------------------------------------------------------------------------
(* The connection commands *)

\* A command line, piece by piece. In JavaScript the empty string is false.
UserOf(device) == IF device.currentUser # "" THEN device.currentUser ELSE "username"

\* showConnectionInfo of src/server/main.go, "SSH Connection String": the
\* command the page shows for a device whose sshStatus is active.
ShowSSHCommand(device) ==
    <<"ssh ", UserOf(device), "@", device.publicIp, " -p ", device.sshPort>>

\* copySSHCommand of the later page (src/unnamed/part_001).
CopySSHCommandText(device) ==
    <<"ssh ", UserOf(device), "@", device.publicIp>>
    \o (IF device.sshPort # "" /\ device.sshPort # "22"
        THEN <<" -p ", device.sshPort>> ELSE <<>>)

\* The page script works on const devices = {{.}}: the mapping the index
\* render wrote into the page, by json tags.
PageDevice(d) ==
    [publicIp |-> d.PublicIP, localIp |-> d.LocalIP, sshPort |-> d.SSHPort,
     sshStatus |-> d.SSHStatus, currentUser |-> d.CurrentUser]

\* A page that the index render has delivered to the browser of handler t's
\* caller.
PageLoaded(t) ==
    /\ pc[t] = "done" /\ req[t].kind = "index" /\ resp[t].status = 200

\* The user clicks Connect for hostname h on the page of src/server/main.go.
ShowConnectionInfo(t, h) ==
    /\ PageLoaded(t)
    /\ frame' = [frame EXCEPT ![t] =
          IF h \notin DOMAIN resp[t].devices
          THEN [kind |-> "page", by |-> "showConnectionInfo", hostname |-> h,
                found |-> FALSE, command |-> <<>>]
          ELSE [kind |-> "page", by |-> "showConnectionInfo", hostname |-> h,
                found |-> TRUE,
                command |-> IF PageDevice(resp[t].devices[h]).sshStatus = "active"
                            THEN ShowSSHCommand(PageDevice(resp[t].devices[h]))
                            ELSE <<>>]]
    /\ UNCHANGED <<booted, devices, devicesNil, file, wmu, readers, pc, req, resp,
                   saveData, now, applied, hist, spawned, agent>>

\* The user clicks Copy SSH Command for hostname h on the later page.
CopySSHCommand(t, h) ==
    /\ PageLoaded(t)
    /\ frame' = [frame EXCEPT ![t] =
          IF h \notin DOMAIN resp[t].devices
          THEN [kind |-> "page", by |-> "copySSHCommand", hostname |-> h,
                found |-> FALSE, command |-> <<>>]
          ELSE [kind |-> "page", by |-> "copySSHCommand", hostname |-> h,
                found |-> TRUE,
                command |-> CopySSHCommandText(PageDevice(resp[t].devices[h]))]]
    /\ UNCHANGED <<booted, devices, devicesNil, file, wmu, readers, pc, req, resp,
                   saveData, now, applied, hist, spawned, agent>>

\* The address selection of the /ssh-command handler, which the device table
\* calls with hostname and ipv6 (src/unnamed/part_002, line 67): first match
\* of ipv6Public when IPv6 is preferred, ipv4Public, ipv6Local when IPv6 is
\* preferred, ipv4Local.
SelectAddressMutant(device, preferIPv6) ==
    IF preferIPv6 /\ device.IPv6Public # "" THEN device.IPv6Public
    ELSE IF preferIPv6 /\ device.IPv6Local # "" THEN device.IPv6Local
    ELSE IF device.IPv4Public # "" THEN device.IPv4Public
    ELSE device.IPv4Local
SelectAddress(device, preferIPv6) ==
    IF preferIPv6 /\ device.IPv6Public # "" THEN device.IPv6Public
    ELSE IF device.IPv4Public # "" THEN device.IPv4Public
    ELSE IF preferIPv6 /\ device.IPv6Local # "" THEN device.IPv6Local
    ELSE device.IPv4Local

\* GET /ssh-command for a record with the four address fields of the device
\* table.
SshCommandReq(device, preferIPv6) ==
    [kind |-> "ssh-command", device |-> device, ipv6 |-> preferIPv6]

SelectRecords ==
    {[IPv4Local |-> a, IPv4Public |-> b, IPv6Local |-> c, IPv6Public |-> d,
      SSHPort |-> q, CurrentUser |-> u] :
        a \in {"", "10.0.0.5"}, b \in {"", "203.0.113.7"}, c \in {"", "fd00::5"},
        d \in {"", "2001:db8::7"}, q \in {"", "22", "2222"}, u \in {"", "ada"}}

SshCommand(t, r) ==
    /\ booted /\ pc[t] = "idle"
    /\ req' = [req EXCEPT ![t] = r]
    /\ resp' = [resp EXCEPT ![t] =
                   [status |-> 200, address |-> SelectAddress(r.device, r.ipv6)]]
    /\ pc' = [pc EXCEPT ![t] = "done"]
    /\ UNCHANGED <<booted, devices, devicesNil, file, wmu, readers, frame, saveData, now,
                   applied, hist, spawned, agent>>

-----------------------------------------------------------------------------
(* saveDevices *)

\* s.mutex.RLock()
SaveRLock(s) ==
    /\ pc[s] = "s_rlock"
    /\ RLock(s, "s_marshal", "s_rwait")
    /\ UNCHANGED <<booted, devices, devicesNil, file, req, frame, resp, saveData, now, applied, hist, spawned, agent>>

\* data, err := json.MarshalIndent(s.devices, "", "  ") and s.mutex.RUnlock().
\* Marshalling a map of strings and times in years 0..9999 returns no error.
SaveMarshalAsOfSpawnMutant(s) ==
    /\ pc[s] = "s_marshal"
    /\ saveData' = [saveData EXCEPT ![s] = Marshal(spawned[s].asOf)]
    /\ spawned' = [spawned EXCEPT ![s].snap = spawned[s].asOf]
    /\ RUnlock(s, "s_open")
    /\ UNCHANGED <<booted, devices, devicesNil, file, req, frame, resp, now, applied, hist, agent>>
SaveMarshalStaleMutant(s) ==
    /\ pc[s] = "s_marshal"
    /\ \E m \in hist :
          /\ saveData' = [saveData EXCEPT ![s] = Marshal(m)]
          /\ spawned' = [spawned EXCEPT ![s].snap = m]
    /\ RUnlock(s, "s_open")
    /\ UNCHANGED <<booted, devices, devicesNil, file, req, frame, resp, now, applied, hist,
                   agent>>
SaveMarshalHoldMutant(s) ==
    /\ pc[s] = "s_marshal"
    /\ saveData' = [saveData EXCEPT ![s] =
                        IF devicesNil THEN <<NullTok>> ELSE Marshal(devices)]
    /\ spawned' = [spawned EXCEPT ![s].snap = devices]
    /\ pc' = [pc EXCEPT ![s] = "s_open"]
    /\ UNCHANGED <<booted, devices, devicesNil, file, wmu, readers, req, frame, resp, now,
                   applied, hist, agent>>
SaveMarshal(s) ==
    /\ pc[s] = "s_marshal"
    /\ saveData' = [saveData EXCEPT ![s] =
                        IF devicesNil THEN <<NullTok>> ELSE Marshal(devices)]
    /\ spawned' = [spawned EXCEPT ![s].snap = devices]
    /\ RUnlock(s, "s_open")
    /\ UNCHANGED <<booted, devices, devicesNil, file, req, frame, resp, now, applied, hist, agent>>

\* os.WriteFile, first half: the file is opened and truncated.
SaveOpen(s) ==
    /\ pc[s] = "s_open"
    /\ file' = [exists |-> TRUE, data |-> <<>>]
    /\ pc' = [pc EXCEPT ![s] = "s_write"]
    /\ UNCHANGED <<booted, devices, devicesNil, wmu, readers, req, frame, resp, saveData, now,
                   applied, hist, spawned, agent>>

\* os.WriteFile fails to open the file: the error is logged.
SaveOpenFails(s) ==
    /\ pc[s] = "s_open"
    /\ pc' = [pc EXCEPT ![s] = "s_failed"]
    /\ UNCHANGED <<booted, devices, devicesNil, file, wmu, readers, req, frame, resp, saveData, now,
                   applied, hist, spawned, agent>>

\* The saves whose write has completed.
Completed == {q \in SaveIds : spawned[q].done # 0}

\* os.WriteFile, second half: data is written at offset 0.
SaveWrite(s) ==
    /\ pc[s] = "s_write"
    /\ file' = [exists |-> TRUE, data |-> WriteAt0(file.data, saveData[s])]
    /\ pc' = [pc EXCEPT ![s] = "s_done"]
    /\ spawned' = [spawned EXCEPT ![s].done = Cardinality(Completed) + 1]
    /\ UNCHANGED <<booted, devices, devicesNil, wmu, readers, req, frame, resp, saveData, now,
                   applied, hist, agent>>

\* The write fails (a full disk): nothing is written, the error is logged.
SaveWriteFailsRetryMutant(s) ==
    /\ pc[s] = "s_write"
    /\ pc' = [pc EXCEPT ![s] = "s_open"]
    /\ UNCHANGED <<booted, devices, devicesNil, file, wmu, readers, req, frame, resp, saveData, now,
                   applied, hist, spawned, agent>>
SaveWriteFails(s) ==
    /\ pc[s] = "s_write"
    /\ pc' = [pc EXCEPT ![s] = "s_failed"]
    /\ UNCHANGED <<booted, devices, devicesNil, file, wmu, readers, req, frame, resp, saveData, now,
                   applied, hist, spawned, agent>>

-----------------------------------------------------------------------------
(* NewServer and loadDevices *)

\* time.Time.UnmarshalJSON
UnmarshalTime(j) ==
    [sec |-> j.sec, mono |-> FALSE, loc |-> IF j.zone = "Z" THEN "UTC" ELSE "Local"]

UnmarshalInfoMutant(j) ==
    [ComputerName |-> j.computerName, LocalIP |-> j.localIp, PublicIP |-> j.publicIp,
     SSHPort |-> "", SSHStatus |-> j.sshStatus, CurrentUser |-> j.currentUser,
     LastUpdate |-> UnmarshalTime(j.lastUpdate), UserAgent |-> j.userAgent,
     RemoteAddress |-> j.remoteAddress]
UnmarshalInfo(j) ==
    [ComputerName |-> j.computerName, LocalIP |-> j.localIp, PublicIP |-> j.publicIp,
     SSHPort |-> j.sshPort, SSHStatus |-> j.sshStatus, CurrentUser |-> j.currentUser,
     LastUpdate |-> UnmarshalTime(j.lastUpdate), UserAgent |-> j.userAgent,
     RemoteAddress |-> j.remoteAddress]

\* json.Unmarshal first checks that the whole text is one JSON value.
ValidJson(data) ==
    \/ data = <<NullTok>>
    \/ /\ Len(data) >= 2
       /\ data[1] = OpenTok /\ data[Len(data)] = CloseTok
       /\ \A i \in 2..(Len(data) - 1) : data[i].tok \in {"entry", "badtime", "number"}

\* The decoder walks the object from entry i on. An entry is decoded into a
\* fresh DeviceInfo and stored under its key. A number where the object is
\* expected is recorded as a type error and the zero DeviceInfo is stored;
\* the error of Time.UnmarshalJSON ends the decoding there, and what was
\* stored before stays.
RECURSIVE UnmarshalFrom(_, _, _)
UnmarshalFrom(data, i, m) ==
    IF i >= Len(data) THEN m
    ELSE IF data[i].tok = "badtime" THEN m
    ELSE UnmarshalFrom(data, i + 1,
             MapSet(m, data[i].key,
                    IF data[i].tok = "number" THEN NoInfo
                    ELSE UnmarshalInfo(data[i].val)))

\* json.Unmarshal(data, &s.devices): a text that is not valid leaves the map
\* as it was; null makes it the nil map.
Unmarshal(data, m) ==
    IF ~ValidJson(data) THEN m
    ELSE IF data = <<NullTok>> THEN EmptyMap
    ELSE UnmarshalFrom(data, 2, m)

UnmarshalNil(data, wasNil) ==
    IF ~ValidJson(data) THEN wasNil
    ELSE data = <<NullTok>>

\* loadDevices, called by NewServer before the server listens.
LoadDevices ==
    /\ ~booted
    /\ booted' = TRUE
    /\ devices' = IF file.exists THEN Unmarshal(file.data, devices) ELSE devices
    /\ devicesNil' = IF file.exists THEN UnmarshalNil(file.data, devicesNil) ELSE devicesNil
    /\ hist' = hist \cup {devices, devices'}
    /\ UNCHANGED <<file, wmu, readers, pc, req, frame, resp, saveData, now, applied,
                   spawned, agent>>

\* The process ends (a crash, a kill, a reboot) and main runs again:
\* NewServer makes an empty map, every goroutine is gone, and the file is as
\* the saves left it. applied and hist, being history, are kept.
Restart ==
    /\ booted
    /\ booted' = FALSE
    /\ devices' = EmptyMap
    /\ devicesNil' = FALSE
    /\ wmu' = NoWriter
    /\ readers' = {}
    /\ pc' = [p \in Procs |->
                IF p \in Tasks THEN "idle"
                ELSE IF pc[p] \in {"s_none", "s_done", "s_failed"} THEN pc[p]
                ELSE "s_killed"]
    /\ req' = [t \in Tasks |-> NoReq]
    /\ frame' = [t \in Tasks |-> NoFrame]
    /\ resp' = [t \in Tasks |-> NoResp]
    /\ saveData' = [s \in SaveIds |-> <<>>]
    /\ UNCHANGED <<file, now, applied, hist, spawned, agent>>

-----------------------------------------------------------------------------
(* The reporting agent, src/ip_monitor.sh *)

\* get_current_ips: "$ipv4_local,$ipv4_public,$ipv6_local,$ipv6_public", here a
\* tuple of the four fields; an address that was not found is empty.
AgentInfos ==
    {<<a, b, c, d>> : a \in {"", "10.0.0.5"}, b \in {"", "203.0.113.7", "203.0.113.8"},
                      c \in {"", "fd00::5"}, d \in {"", "2001:db8::7"}}

\* The text of $LAST_IP_FILE: empty after touch, else the info last written.
EmptyFile == <<>>

\* What curl meets: the server answers 200 or 400, or it cannot be reached.
CurlOutcomes == {"200", "400", "unreachable"}

NoRun == [current |-> EmptyFile, sent |-> FALSE, outcome |-> "none"]

\* Before the first run there is no $LAST_IP_FILE.
AgentInit == [exists |-> FALSE, lastIp |-> EmptyFile, run |-> NoRun, runs |-> 0]

MaxRuns == 3

\* LAST_IP_INFO=$(cat "$LAST_IP_FILE"), after the file was touched if missing.
LastIpInfo == IF agent.exists THEN agent.lastIp ELSE EmptyFile

\* notify_server: the report is sent with curl, whose result is not looked
\* at, and "$ip_info" is written to $LAST_IP_FILE. The value is what the file
\* holds afterwards.
NotifyServer(ip_info, outcome) == ip_info

\* One run of the script with current addresses cur, where curl, if it is
\* called, meets outcome.
AgentRun(cur, outcome) ==
    /\ agent.runs < MaxRuns
    /\ agent' = IF cur # LastIpInfo
                THEN [exists |-> TRUE, lastIp |-> NotifyServer(cur, outcome),
                      run |-> [current |-> cur, sent |-> TRUE, outcome |-> outcome],
                      runs |-> agent.runs + 1]
                ELSE [exists |-> TRUE, lastIp |-> LastIpInfo,
                      run |-> [current |-> cur, sent |-> FALSE, outcome |-> "none"],
                      runs |-> agent.runs + 1]
    /\ UNCHANGED serverVars

AgentNext == \E cur \in AgentInfos, outcome \in CurlOutcomes : AgentRun(cur, outcome)

-----------------------------------------------------------------------------
(* The specification *)

\* The snapshot file at startup: the server runs for the first time.
InitialFiles ==
    {[exists |-> FALSE, data |-> <<>>]}

Init ==
    /\ booted = FALSE
    /\ devices = EmptyMap
    /\ devicesNil = FALSE
    /\ file \in InitialFiles
    /\ wmu = NoWriter
    /\ readers = {}
    /\ pc = [p \in Procs |-> IF p \in Tasks THEN "idle" ELSE "s_none"]
    /\ req = [t \in Tasks |-> NoReq]
    /\ frame = [t \in Tasks |-> NoFrame]
    /\ resp = [t \in Tasks |-> NoResp]
    /\ saveData = [s \in SaveIds |-> <<>>]
    /\ now = 0
    /\ applied = [h \in Hostnames |-> NoWrite]
    /\ hist = {}
    /\ spawned = [s \in SaveIds |-> NoSpawn]
    /\ agent = AgentInit

\* handleUpdate, one step of goroutine t.
UpdateStep(t) ==
    \/ \E r \in UpdateRequests, n \in ClockReadings : UpdateBegin(t, r, n)
    \/ UpdateLock(t)
    \/ UpdateLockAcquire(t)
    \/ UpdateWrite(t)
    \/ UpdateRespond(t)

\* handleGetDevice, handleListDevices and handleIndex, one step of goroutine t.
ReadStep(t) ==
    \/ \E r \in ReadRequests : GetBegin(t, r)
    \/ GetRLock(t)
    \/ GetRead(t)
    \/ \E r \in ReadRequests : ListBegin(t, r)
    \/ ListRLock(t)
    \/ ListRead(t)

\* saveDevices up to s.mutex.RUnlock(): the part that touches the registry.
SaveCaptureStep(s) ==
    \/ SaveRLock(s)
    \/ SaveMarshal(s)

\* saveDevices from os.WriteFile on: the part that touches the file.
SaveFileStep(s) ==
    \/ SaveOpen(s)
    \/ SaveOpenFails(s)
    \/ SaveWrite(s)
    \/ SaveWriteFails(s)

\* The registry and its lock: every handler and the saves' capture of the
\* snapshot. The writes of the file, which touch neither, are left out.
Next ==
    \/ LoadDevices
    \/ \E t \in Tasks : UpdateStep(t) \/ ReadStep(t) \/ Return(t)
    \/ \E s \in SaveIds : SaveCaptureStep(s)

Spec == Init /\ [][Next]_vars

\* The snapshot file: the updates and the whole of every save.
DiskNext ==
    \/ LoadDevices
    \/ \E t \in Tasks : UpdateStep(t) \/ Return(t)
    \/ \E s \in SaveIds : SaveCaptureStep(s) \/ SaveFileStep(s)

SpecDisk == Init /\ [][DiskNext]_vars

\* handleUpdate alone, one request after the other, over IngestRequests.
IngestNext ==
    \/ LoadDevices
    \/ \E r \in IngestRequests, n \in ClockReadings : UpdateBegin(1, r, n)
    \/ UpdateLock(1)
    \/ UpdateWrite(1)
    \/ UpdateRespond(1)
    \/ Return(1)

SpecIngest == Init /\ [][IngestNext]_vars

\* The reports behind the pages: every sshPort, sshStatus and currentUser.
PageRequests ==
    {UpdateReq("POST", Body([hostname |-> "h1", publicIp |-> "203.0.113.7",
                             localIp |-> "10.0.0.5", sshPort |-> q,
                             sshStatus |-> st, currentUser |-> u,
                             timestamp |-> TsGood])) :
        q \in {"", "22", "2222"}, st \in {"active", "inactive"}, u \in {"", "ada"}}

\* The page: reports by goroutine 1, the index render by goroutine 2, and the
\* clicks on the rendered page.
PageNext ==
    \/ LoadDevices
    \/ \E r \in PageRequests, n \in ClockReadings : UpdateBegin(1, r, n)
    \/ UpdateLock(1) \/ UpdateLockAcquire(1) \/ UpdateWrite(1) \/ UpdateRespond(1)
    \/ Return(1)
    \/ ListBegin(2, IndexReq("/")) \/ ListRLock(2) \/ ListRead(2)
    \/ \E h \in Hostnames : ShowConnectionInfo(2, h) \/ CopySSHCommand(2, h)
    \/ Return(2)

SpecPage == Init /\ [][PageNext]_vars

\* The address selection alone, over SelectRecords and both preferences.
SelectNext ==
    \/ LoadDevices
    \/ \E d \in SelectRecords, p \in BOOLEAN : SshCommand(1, SshCommandReq(d, p))
    \/ Return(1)

SpecSelect == Init /\ [][SelectNext]_vars

\* Reports over every transport context: the User-Agent header (absent or
\* set) and the peer address of the connection, with a body that names
\* userAgent and remoteAddress itself, in the json tags of DeviceInfo, or not.
TransportRequests ==
    {[kind |-> "update", method |-> "POST",
      body |-> Body([hostname |-> h, publicIp |-> "203.0.113.7",
                     timestamp |-> TsGood, userAgent |-> bu, remoteAddress |-> br]),
      ua |-> ua, ra |-> ra] :
        h \in Hostnames, bu \in {"", "forged-agent"}, br \in {"", "192.0.2.66:1"},
        ua \in {"", "curl/8.4"}, ra \in {"198.51.100.9:50412", "[2001:db8::9]:443"}}

\* handleUpdate over TransportRequests, one request after the other, and the
\* Get that returns what was stored.
TransportNext ==
    \/ LoadDevices
    \/ \E r \in TransportRequests, n \in ClockReadings : UpdateBegin(1, r, n)
    \/ UpdateLock(1) \/ UpdateLockAcquire(1) \/ UpdateWrite(1) \/ UpdateRespond(1)
    \/ Return(1)
    \/ \E h \in Hostnames : GetBegin(2, GetReq(h))
    \/ GetRLock(2) \/ GetRead(2)
    \/ Return(2)

SpecTransport == Init /\ [][TransportNext]_vars

\* The snapshot file when the server starts: missing; empty; cut off in the
\* middle; null; the empty mapping; a mapping of one and of two records; a
\* mapping whose second entry has a lastUpdate that is no time; a mapping
\* whose entry is a number.
FileRecord(h) ==
    NewDeviceInfo(DecodeUpdate(FullReport(h)), TimeParse(TsGood).t,
                  [body |-> EmptyBody, ua |-> "curl/8.4",
                   ra |-> "198.51.100.9:50412"])

StartFiles ==
    {[exists |-> FALSE, data |-> <<>>]}
    \cup {[exists |-> TRUE, data |-> d] :
            d \in {<<>>,
                   <<OpenTok, EntryTok("h1", FileRecord("h1"))>>,
                   <<NullTok>>,
                   Marshal(EmptyMap),
                   Marshal(MapSet(EmptyMap, "h2", FileRecord("h2"))),
                   Marshal(MapSet(MapSet(EmptyMap, "h1", FileRecord("h1")),
                                  "h2", FileRecord("h2"))),
                   <<OpenTok, EntryTok("h1", FileRecord("h1")),
                     BadTimeTok("h2", FileRecord("h2")), CloseTok>>,
                   <<OpenTok, NumberTok("h1"), CloseTok>>}}

InitBoot ==
    /\ booted = FALSE
    /\ devices = EmptyMap
    /\ devicesNil = FALSE
    /\ file \in StartFiles
    /\ wmu = NoWriter
    /\ readers = {}
    /\ pc = [p \in Procs |-> IF p \in Tasks THEN "idle" ELSE "s_none"]
    /\ req = [t \in Tasks |-> NoReq]
    /\ frame = [t \in Tasks |-> NoFrame]
    /\ resp = [t \in Tasks |-> NoResp]
    /\ saveData = [s \in SaveIds |-> <<>>]
    /\ now = 0
    /\ applied = [h \in Hostnames |-> NoWrite]
    /\ hist = {}
    /\ spawned = [s \in SaveIds |-> NoSpawn]
    /\ agent = AgentInit

\* Startup and restart over every such file: updates by goroutine 1, reads by
\* goroutine 2, the saves (their writes succeed), and the process ending and
\* starting again.
BootNext ==
    \/ LoadDevices
    \/ Restart
    \/ UpdateStep(1) \/ Return(1)
    \/ ReadStep(2) \/ Return(2)
    \/ \E s \in SaveIds : SaveCaptureStep(s) \/ SaveOpen(s) \/ SaveWrite(s)

SpecBoot == InitBoot /\ [][BootNext]_vars

\* The agent alone, run after run.
SpecAgent == Init /\ [][AgentNext]_vars

\* Scheduling. The Go scheduler runs every goroutine that can run: a handler
\* or a save that can take its next step takes it. The arrival of a request
\* is up to the clients, and so is not required.
HandlerStep(t) ==
    \/ UpdateLock(t) \/ UpdateLockAcquire(t) \/ UpdateWrite(t) \/ UpdateRespond(t)
    \/ GetRLock(t) \/ GetRead(t)
    \/ ListRLock(t) \/ ListRead(t)

SaveStep(s) == SaveRLock(s) \/ SaveMarshal(s) \/ SaveOpen(s) \/ SaveWrite(s)

LiveUpdates == {UpdateReq("POST", FullReport("h1")), UpdateReq("POST", FullReport("h2"))}
LiveReads == {GetReq("h1"), ListReq}

\* The snapshot file when the server starts: missing, a mapping of one
\* record, null.
LiveFiles ==
    {[exists |-> FALSE, data |-> <<>>],
     [exists |-> TRUE, data |-> Marshal(MapSet(EmptyMap, "h2", FileRecord("h2")))],
     [exists |-> TRUE, data |-> <<NullTok>>]}

InitLive ==
    /\ booted = FALSE
    /\ devices = EmptyMap
    /\ devicesNil = FALSE
    /\ file \in LiveFiles
    /\ wmu = NoWriter
    /\ readers = {}
    /\ pc = [p \in Procs |-> IF p \in Tasks THEN "idle" ELSE "s_none"]
    /\ req = [t \in Tasks |-> NoReq]
    /\ frame = [t \in Tasks |-> NoFrame]
    /\ resp = [t \in Tasks |-> NoResp]
    /\ saveData = [s \in SaveIds |-> <<>>]
    /\ now = 0
    /\ applied = [h \in Hostnames |-> NoWrite]
    /\ hist = {}
    /\ spawned = [s \in SaveIds |-> NoSpawn]
    /\ agent = AgentInit

\* Every handler serves updates and reads; every save runs to its end.
LiveNext ==
    \/ LoadDevices
    \/ \E t \in Tasks :
          \/ \E r \in LiveUpdates : UpdateBegin(t, r, now)
          \/ \E r \in LiveReads : GetBegin(t, r) \/ ListBegin(t, r)
          \/ HandlerStep(t)
          \/ Return(t)
    \/ \E s \in SaveIds : SaveStep(s)

Fairness ==
    /\ WF_vars(LoadDevices)
    /\ \A t \in Tasks : WF_vars(HandlerStep(t))
    /\ \A s \in SaveIds : WF_vars(SaveStep(s))

SpecLive == InitLive /\ [][LiveNext]_vars /\ Fairness

-----------------------------------------------------------------------------
(* Properties *)

\* The record an update makes by itself: its own fields, the time its
\* timestamp gives (or the clock reading of its ingestion) and the transport's
\* user agent and remote address.
RecordOf(a) ==
    [ComputerName |-> a.update.ComputerName,
     LocalIP |-> a.update.LocalIP,
     PublicIP |-> a.update.PublicIP,
     SSHPort |-> a.update.SSHPort,
     SSHStatus |-> a.update.SSHStatus,
     CurrentUser |-> a.update.CurrentUser,
     LastUpdate |-> IF TimeParse(a.update.Timestamp).ok
                    THEN TimeParse(a.update.Timestamp).t ELSE TimeNow(a.at),
     UserAgent |-> a.ua,
     RemoteAddress |-> a.ra]

Written == {h \in Hostnames : applied[h].by # 0}

\* C1: after every accepted update of a hostname the stored record is exactly
\* the record of that update alone; a field the update leaves empty is empty
\* in the stored record, whatever the record before held.
C1_ReplaceNotMerge ==
    \A h \in Written :
        /\ h \in DOMAIN devices
        /\ devices[h] = RecordOf(applied[h])
        /\ \A f \in {"ComputerName", "LocalIP", "PublicIP", "SSHPort", "SSHStatus",
                     "CurrentUser"} :
              applied[h].update[f] = "" => devices[h][f] = ""

\* A second update of h1 with empty fields has replaced a record whose fields
\* were set.
C1_Witness ==
    /\ "h1" \in Written
    /\ devices["h1"].ComputerName = "" /\ devices["h1"].SSHPort = ""
    /\ \E m \in hist : "h1" \in DOMAIN m /\ m["h1"].ComputerName # ""
                       /\ m["h1"].SSHPort # ""

\* C2: a Get of h that starts after an Upsert of h was acknowledged, with no
\* write of h before the Get reads, finds h and returns the record of that
\* Upsert.
C2_ReadAfterWrite ==
    \A t \in Tasks :
        (pc[t] = "done" /\ frame[t].kind = "get" /\ frame[t].pre)
            => /\ resp[t].status = 200
               /\ resp[t].device = RecordOf(frame[t].expect)

\* Such a Get of h1 has returned while the other hostname was written too.
C2_Witness ==
    \E t \in Tasks :
        /\ pc[t] = "done" /\ frame[t].kind = "get" /\ frame[t].pre
        /\ req[t].hostname = "h1" /\ resp[t].status = 200
        /\ "h2" \in Written

\* C3: a report whose hostname is empty is refused, whatever its other fields.
C3_EmptyHostnameRejected ==
    \A t \in Tasks :
        (req[t].kind = "update" /\ req[t].body.hostname = "")
            => pc[t] = "done" /\ resp[t].status \in {400, 405}

\* A report with every other field set and no hostname has been refused.
C3_Witness ==
    \E t \in Tasks :
        /\ req[t].kind = "update" /\ req[t].method = "POST" /\ req[t].body.ok
        /\ req[t].body.hostname = ""
        /\ req[t].body.localIp # "" /\ req[t].body.publicIp # ""
        /\ req[t].body.ipv6Public # "" /\ req[t].body.currentUser # ""
        /\ req[t].body.timestamp = TsGood
        /\ pc[t] = "done" /\ resp[t].status = 400

FourAddresses(b) == <<b.ipv4Local, b.ipv4Public, b.ipv6Local, b.ipv6Public>>
NonEmptyOf(a) == {i \in 1..Len(a) : a[i] # ""}
Refused(t) == pc[t] = "done" /\ resp[t].status \in {400, 405}
TakenOn(t) == pc[t] \in UpdatePcs \/ (pc[t] = "done" /\ resp[t].status = 200)

\* C4: a report with a hostname, in the four address keys the agent sends, is
\* refused when all four are empty and accepted when exactly one is set,
\* whichever it is.
C4_AddressValidation ==
    \A t \in Tasks :
        (/\ req[t].kind = "update" /\ req[t].method = "POST" /\ req[t].body.ok
         /\ req[t].body.hostname # ""
         /\ req[t].body.localIp = "" /\ req[t].body.publicIp = "")
            => /\ NonEmptyOf(FourAddresses(req[t].body)) = {} => Refused(t)
               /\ Cardinality(NonEmptyOf(FourAddresses(req[t].body))) = 1 => TakenOn(t)

NoAddress(b) ==
    /\ b.localIp = "" /\ b.publicIp = ""
    /\ NonEmptyOf(FourAddresses(b)) = {}

\* The requests the claim calls rejected: a wrong method, a body that does not
\* decode, an empty hostname, no address.
MustRefuse(r) ==
    r.method # "POST" \/ ~r.body.ok \/ r.body.hostname = "" \/ NoAddress(r.body)

\* C5: every step handleUpdate takes for such a request answers with an error
\* and leaves the registry, the file and the saves as they were.
C5_RejectedLeavesRegistry ==
    [][\A t \in Tasks :
          (/\ req'[t].kind = "update" /\ MustRefuse(req'[t])
           /\ pc'[t] # pc[t] /\ pc'[t] # "idle")
              => /\ pc'[t] = "done" /\ resp'[t].status \in {400, 405}
                 /\ devices' = devices
                 /\ file' = file
                 /\ \A s \in SaveIds : pc'[s] = pc[s]]_vars

\* A request of each kind has been refused with a record in the registry.
C5_Witness ==
    \E t \in Tasks :
        /\ req[t].kind = "update" /\ MustRefuse(req[t])
        /\ req[t].method = "POST" /\ req[t].body.ok /\ req[t].body.hostname # ""
        /\ pc[t] = "done" /\ resp[t].status = 400
        /\ "h1" \in DOMAIN devices

\* C6: the stored lastUpdate is the parsed timestamp when the timestamp
\* parses, and otherwise (absent or unparseable) the clock reading of the
\* ingestion, never the zero time; a report is not refused for its timestamp.
C6_TimestampDerivation ==
    /\ \A h \in Written :
          /\ TimeParse(applied[h].update.Timestamp).ok
                => devices[h].LastUpdate = TimeParse(applied[h].update.Timestamp).t
          /\ ~TimeParse(applied[h].update.Timestamp).ok
                => /\ devices[h].LastUpdate = TimeNow(applied[h].at)
                   /\ devices[h].LastUpdate # ZeroTime
    /\ \A t \in Tasks :
          (/\ req[t].kind = "update" /\ req[t].method = "POST" /\ req[t].body.ok
           /\ req[t].body.hostname # ""
           /\ (req[t].body.localIp # "" \/ req[t].body.publicIp # ""))
              => TakenOn(t)

\* A report whose timestamp names a thirteenth month is stored with the clock
\* reading.
C6_Witness ==
    /\ "h1" \in Written
    /\ applied["h1"].update.Timestamp = TsBadMonth
    /\ devices["h1"].LastUpdate = TimeNow(1)
    /\ "h1" \in DOMAIN devices

\* C7: every Upsert that reaches the registry succeeds; the write of one
\* hostname leaves the entry of every other hostname as it was; and once all
\* Upserts have returned each hostname holds the record of its last update.
C7_DistinctHostnames ==
    /\ [][\A t \in Tasks :
            (pc[t] = "u_write" /\ pc'[t] # "u_write")
                => \A g \in Hostnames \ {frame[t].update.Hostname} :
                      /\ (g \in DOMAIN devices') = (g \in DOMAIN devices)
                      /\ g \in DOMAIN devices => devices'[g] = devices[g]]_vars
    /\ [](\A t \in Tasks :
            (pc[t] = "done" /\ frame[t].kind = "update") => resp[t].status = 200)
    /\ []((\A t \in Tasks : pc[t] \notin UpdatePcs)
            => \A h \in Written : h \in DOMAIN devices /\ devices[h] = RecordOf(applied[h]))

\* Two Upserts for different hostnames are in flight and both have written.
C7_Witness ==
    /\ pc[1] = "u_respond" /\ pc[2] = "u_respond"
    /\ frame[1].update.Hostname # frame[2].update.Hostname
    /\ Written = Hostnames

InWrite == {t \in Tasks : pc[t] = "u_write"}
InRead == {p \in Procs : pc[p] \in {"g_read", "l_read", "s_marshal"}}

\* C8: at most one goroutine is in the write section, and while one is, none
\* is in a read section; loadDevices runs before any other goroutine starts.
C8_SingleWriterMultiReader ==
    /\ Cardinality(InWrite) <= 1
    /\ InWrite # {} => InRead = {}
    /\ InRead = readers
    /\ ~booted => \A p \in Procs : pc[p] \in {"idle", "s_none"}

\* Two readers are in their read sections together while a writer waits.
C8_Witness ==
    /\ Cardinality(InRead) >= 2
    /\ \E t \in Tasks : pc[t] = "u_wait"

\* The record the update in handler t's frame makes.
FrameRecord(t) ==
    RecordOf([update |-> frame[t].update, ua |-> req[t].ua, ra |-> req[t].ra,
              at |-> frame[t].at])

\* C11: the Upsert that leaves the write section leaves its own record in the
\* registry, whatever record was there, whichever update arrived first and
\* whichever timestamp is older; so of two Upserts of one hostname that have
\* both written, the registry holds the record of the second to write.
C11_WriteOrderWins ==
    /\ [][\A t \in Tasks :
            (pc[t] = "u_write" /\ pc'[t] = "u_respond")
                => /\ frame[t].update.Hostname \in DOMAIN devices'
                   /\ devices'[frame[t].update.Hostname] = FrameRecord(t)
                   /\ applied'[frame[t].update.Hostname].by = t]_vars
    /\ [](\A t, u \in Tasks :
            (/\ t # u /\ pc[t] = "u_respond" /\ pc[u] = "u_respond"
             /\ frame[t].update.Hostname = frame[u].update.Hostname
             /\ applied[frame[t].update.Hostname].by = t)
                => devices[frame[t].update.Hostname] = FrameRecord(t))

\* Two Upserts of h1 have both written; the second to write arrived first and
\* its timestamp is older than the record it replaced.
C11_Witness ==
    \E t, u \in Tasks :
        /\ t # u /\ pc[t] = "u_respond" /\ pc[u] = "u_respond"
        /\ frame[t].update.Hostname = "h1" /\ frame[u].update.Hostname = "h1"
        /\ applied["h1"].by = t
        /\ frame[t].arrival < frame[u].arrival
        /\ FrameRecord(t).LastUpdate.sec < FrameRecord(u).LastUpdate.sec
        /\ devices["h1"] = FrameRecord(t)

\* C12: a handler that has updated the map can answer at once, whatever the
\* save it spawned is doing (not started, blocked, writing, failed); and the
\* answer of an update that reached the map is success.
C12_AckWithoutPersistence ==
    \A t \in Tasks :
        /\ pc[t] = "u_respond" => ENABLED UpdateRespond(t)
        /\ (pc[t] = "done" /\ frame[t].kind = "update") => resp[t].status = 200

\* An Upsert has answered success while its save has not started and the file
\* holds an older complete snapshot, without the record just acknowledged.
C12_Witness ==
    \E t \in Tasks :
        /\ pc[t] = "done" /\ frame[t].kind = "update" /\ resp[t].status = 200
        /\ devices[frame[t].update.Hostname] = FrameRecord(t)
        /\ \E s \in SaveIds : pc[s] = "s_rlock"
        /\ file.exists
        /\ \E m \in hist :
              /\ file.data = Marshal(m)
              /\ frame[t].update.Hostname \notin DOMAIN m

\* C13: a save makes one attempt (it never goes back to an earlier step, and
\* a failed save stays ended); the step on which it fails changes neither the
\* registry nor any handler or response; every update that reached the map is
\* answered with success and the registry keeps its record.
C13_SaveFailureAbsorbed ==
    /\ [][\A s \in SaveIds :
            /\ pc[s] = "s_failed" => pc'[s] = "s_failed"
            /\ pc[s] = "s_write" => pc'[s] \in {"s_write", "s_done", "s_failed"}
            /\ pc[s] = "s_open" => pc'[s] \in {"s_open", "s_write", "s_failed"}
            /\ (pc[s] # "s_failed" /\ pc'[s] = "s_failed")
                  => /\ devices' = devices /\ resp' = resp /\ applied' = applied
                     /\ \A t \in Tasks : pc'[t] = pc[t]]_vars
    /\ [](\A t \in Tasks :
            (pc[t] = "done" /\ frame[t].kind = "update") => resp[t].status = 200)
    /\ [](\A h \in Written : h \in DOMAIN devices /\ devices[h] = RecordOf(applied[h]))

\* The first save has failed; the Upserts were answered with success, both
\* records are in the registry, and the next save has written it all.
C13_Witness ==
    /\ pc[NTasks + 1] = "s_failed" /\ pc[NTasks + 2] = "s_done"
    /\ Written = Hostnames
    /\ \A h \in Hostnames : applied[h].acked /\ devices[h] = RecordOf(applied[h])
    /\ file.data = Marshal(devices)

\* The step of loadDevices.
Loads == ~booted /\ booted'

\* C14 as stated: when the file is the saved form of a registry the program
\* has held (or of the empty registry), loading it into the fresh registry
\* yields that registry, equal in every field.
C14_RoundTrip ==
    [][(Loads /\ file.exists)
          => \A m \in hist \cup {EmptyMap} :
                file.data = Marshal(m) => devices' = m]_vars

\* Two records are the same but for the monotonic clock reading and the zone
\* of lastUpdate: every other field is equal and lastUpdate is the same
\* instant.
SameRecord(d, e) ==
    /\ \A f \in DOMAIN d \ {"LastUpdate"} : d[f] = e[f]
    /\ d.LastUpdate.sec = e.LastUpdate.sec

SameMapping(m, n) ==
    /\ DOMAIN m = DOMAIN n
    /\ \A h \in DOMAIN m : SameRecord(m[h], n[h])

\* C14, amended: loading the saved form of a registry yields the same
\* hostnames, each with a record equal in every field and a lastUpdate that
\* is the same instant.
C14_RoundTripInstant ==
    [][(Loads /\ file.exists)
          => \A m \in hist \cup {EmptyMap} :
                file.data = Marshal(m) => SameMapping(devices', m)]_vars

\* A registry of two records, one with a lastUpdate read from the clock, was
\* saved and has been loaded by the restarted server: the same mapping, and
\* not equal to it.
C14_Witness ==
    /\ booted /\ file.exists
    /\ \E m \in hist :
          /\ file.data = Marshal(m)
          /\ DOMAIN m = Hostnames
          /\ SameMapping(devices, m)
          /\ devices # m

\* A text loadDevices takes without an error, and the mapping it holds.
WellFormed(data) ==
    /\ ValidJson(data)
    /\ \A i \in 1..Len(data) : data[i].tok \notin {"badtime", "number"}

FileMapping(data) ==
    [k \in {data[i].key : i \in {j \in 1..Len(data) : data[j].tok = "entry"}} |->
        UnmarshalInfo(data[CHOOSE i \in 1..Len(data) :
                              /\ data[i].tok = "entry" /\ data[i].key = k
                              /\ \A j \in (i + 1)..Len(data) : data[j].key # k].val)]

\* C15: loadDevices leaves the registry empty when the file is missing or
\* malformed (not JSON, or JSON that decodes only in part), and otherwise
\* equal to the file's mapping; the server starts in every case.
C15_LoadAtStartup ==
    [][Loads
          => devices' = IF ~file.exists \/ ~WellFormed(file.data) THEN EmptyMap
                        ELSE FileMapping(file.data)]_vars

\* C16: no handler ends while it holds s.mutex, so the lock is only ever held
\* by a handler that goes on to release it.
C16_NeverFatal ==
    /\ \A t \in Tasks : pc[t] # "u_panic"
    /\ wmu # NoWriter => pc[wmu] \in {"u_wait", "u_write"}

\* C17: the mapping a List or an index render has returned is the registry as
\* it was at one instant, and nothing that runs afterwards, while the caller
\* holds the response, changes it.
C17_ListIsolated ==
    /\ [](\A t \in Tasks :
            (pc[t] = "done" /\ req[t].kind \in {"list", "index"} /\ resp[t].status = 200)
                => resp[t].devices \in hist)
    /\ [][\A t \in Tasks :
            (pc[t] = "done" /\ pc'[t] = "done") => resp'[t] = resp[t]]_vars

\* A List has returned a record, and an Upsert that ran while the caller held
\* the response has changed the registry.
C17_Witness ==
    \E t, u \in Tasks :
        /\ pc[t] = "done" /\ req[t].kind = "list" /\ resp[t].status = 200
        /\ DOMAIN resp[t].devices # {}
        /\ resp[t].devices # devices
        /\ pc[u] = "u_respond"

\* A step of the read handler in goroutine t, and of no other handler.
ReadStepOf(t) ==
    /\ req'[t].kind \in {"get", "list", "index"}
    /\ pc'[t] # pc[t] \/ frame'[t] # frame[t]
    /\ \A u \in Tasks \ {t} : pc'[u] = pc[u]

\* C18: no step of a Get, a List or an index render changes the registry, the
\* file or a save, or starts one; a Get answers 200 or 404, and 404 exactly
\* for a hostname the registry did not hold when it looked.
C18_ReadOnly ==
    /\ [][\A t \in Tasks :
            ReadStepOf(t)
                => /\ devices' = devices /\ devicesNil' = devicesNil
                   /\ applied' = applied /\ hist' = hist
                   /\ file' = file /\ saveData' = saveData
                   /\ \A s \in SaveIds : pc'[s] = pc[s]]_vars
    /\ [](\A t \in Tasks :
            (pc[t] = "done" /\ req[t].kind = "get" /\ req[t].hostname # "")
                => /\ resp[t].status \in {200, 404}
                   /\ req[t].hostname \notin DOMAIN devices => resp[t].status = 404
                   /\ resp[t].status = 404
                         => \E m \in hist : req[t].hostname \notin DOMAIN m)

\* A Get of a hostname that was never reported has answered 404 while the
\* registry holds another hostname.
C18_Witness ==
    \E t \in Tasks :
        /\ pc[t] = "done" /\ req[t].kind = "get" /\ req[t].hostname = "h2"
        /\ resp[t].status = 404
        /\ DOMAIN devices = {"h1"}

HasPortQualifier(cmd) == \E i \in 1..Len(cmd) : cmd[i] = " -p "
PortOf(cmd) == cmd[(CHOOSE i \in 1..Len(cmd) : cmd[i] = " -p ") + 1]

\* C20: an SSH command generated for a record has the qualifier " -p
\* <sshPort>" exactly when the record's sshPort is neither empty nor 22.
C20_PortQualifier ==
    \A t \in Tasks :
        (frame[t].kind = "page" /\ frame[t].found /\ frame[t].command # <<>>)
            => /\ HasPortQualifier(frame[t].command)
                    = (resp[t].devices[frame[t].hostname].SSHPort \notin {"", "22"})
               /\ HasPortQualifier(frame[t].command)
                    => PortOf(frame[t].command)
                          = resp[t].devices[frame[t].hostname].SSHPort

\* C21: the write of an update stores the User-Agent header and the peer
\* address of its own request as userAgent and remoteAddress, whatever the
\* body names under those keys; and every record the registry holds carries
\* the transport values of the request that wrote it.
C21_TransportStamp ==
    /\ [][\A t \in Tasks :
            (pc[t] = "u_write" /\ pc'[t] = "u_respond")
                => /\ devices'[frame[t].update.Hostname].UserAgent = req[t].ua
                   /\ devices'[frame[t].update.Hostname].RemoteAddress = req[t].ra]_vars
    /\ [](\A h \in Written :
            /\ devices[h].UserAgent = applied[h].ua
            /\ devices[h].RemoteAddress = applied[h].ra)

\* A report whose body names a userAgent and a remoteAddress of its own, sent
\* without a User-Agent header, is stored with the empty user agent and the
\* peer address of its connection.
C21_Witness ==
    \E t \in Tasks :
        /\ pc[t] = "u_respond"
        /\ req[t].body.userAgent = "forged-agent" /\ req[t].body.remoteAddress = "192.0.2.66:1"
        /\ req[t].ua = "" /\ req[t].ra = "[2001:db8::9]:443"
        /\ devices[frame[t].update.Hostname].UserAgent = ""
        /\ devices[frame[t].update.Hostname].RemoteAddress = "[2001:db8::9]:443"

\* The saves that leave s_none in a step, and whether the step is the map
\* write of handler t.
SpawnedNow == {s \in SaveIds : pc[s] = "s_none" /\ pc'[s] # "s_none"}
WritesNow(t) == pc[t] = "u_write" /\ pc'[t] = "u_respond"

\* Every accepted update spawns exactly one save, and nothing else spawns one.
OneSavePerUpdate ==
    /\ \A t \in Tasks :
          WritesNow(t) => /\ Cardinality(SpawnedNow) = 1
                          /\ \A s \in SpawnedNow : pc'[s] = "s_rlock" /\ spawned'[s].by = t
    /\ (\A t \in Tasks : ~WritesNow(t)) => SpawnedNow = {}

\* The saves that have read the registry.
Captured == {s \in SaveIds : pc[s] \in {"s_open", "s_write", "s_done", "s_failed"}}

\* C22 as stated: every accepted update spawns exactly one save, and the
\* snapshot that save has taken is the registry as it stood when that update's
\* write completed.
C22_SaveOfThatUpdate ==
    /\ [][OneSavePerUpdate]_vars
    /\ [](\A s \in Captured : saveData[s] = Marshal(spawned[s].asOf))

\* C22, amended: every accepted update spawns exactly one save; the snapshot
\* the save takes is the registry as it stands at the moment the save reads it
\* under the read lock, which is the registry as of that update when no other
\* update has written since; the snapshot does not change afterwards and is
\* what the save writes at the start of the file.
C22_SaveOfCaptureTime ==
    /\ [][OneSavePerUpdate]_vars
    /\ [][\A s \in SaveIds :
            /\ (pc[s] = "s_marshal" /\ pc'[s] = "s_open")
                  => /\ saveData'[s] = Marshal(devices)
                     /\ spawned[s].after = {spawned[s].asOf}
                           => saveData'[s] = Marshal(spawned[s].asOf)
            /\ (s \in Captured /\ pc'[s] # "s_killed") => saveData'[s] = saveData[s]
            /\ (pc[s] = "s_write" /\ pc'[s] = "s_done")
                  => SubSeq(file'.data, 1, Len(saveData[s])) = saveData[s]]_vars

\* The save of the first update has written a snapshot that holds the second
\* update too: it is not the registry as of the update that spawned it.
C22_Witness ==
    /\ pc[NTasks + 1] = "s_done"
    /\ DOMAIN spawned[NTasks + 1].asOf = {"h1"}
    /\ saveData[NTasks + 1] = Marshal(devices)
    /\ DOMAIN devices = Hostnames
    /\ saveData[NTasks + 1] # Marshal(spawned[NTasks + 1].asOf)
    /\ file.data = saveData[NTasks + 1]

\* C23: no step of the running process (an update, accepted or refused, a
\* read, a save, the load at startup) removes a hostname from the registry;
\* only the end of the process does.
C23_NeverDeleted ==
    [][booted' => \A h \in DOMAIN devices : h \in DOMAIN devices']_vars

\* h1 was in the registry alone; since then the process has taken an update of
\* h2, answered a Get and written a save, and h1 is still there.
C23_Witness ==
    /\ booted /\ DOMAIN devices = Hostnames
    /\ \E m \in hist : DOMAIN m = {"h1"}
    /\ applied["h2"].by # 0
    /\ pc[2] = "done" /\ req[2].kind = "get" /\ resp[2].status = 200
    /\ \E s \in SaveIds : pc[s] = "s_done"

\* The last save whose write completed with success.
LastCompleted(s) == s \in Completed /\ \A q \in Completed : spawned[q].done <= spawned[s].done

\* C24: when the server starts on a well-formed file its registry is the
\* mapping the file holds; and whenever it starts, every record that the last
\* successfully completed save wrote is in its registry.
C24_DurabilityWindow ==
    [][Loads
          => /\ (file.exists /\ WellFormed(file.data))
                   => devices' = FileMapping(file.data)
             /\ \A s \in SaveIds :
                   LastCompleted(s)
                       => \A h \in DOMAIN spawned[s].snap :
                             /\ h \in DOMAIN devices'
                             /\ SameRecord(devices'[h], spawned[s].snap[h])]_vars

\* A save between the start and the end of os.WriteFile.
InFileWrite == {s \in SaveIds : pc[s] \in {"s_open", "s_write"}}

\* C25: a save holds the read lock only while it marshals the map, and holds
\* nothing from os.WriteFile on; a handler of an update holds (or awaits) the
\* write lock only between s.mutex.Lock() and the map assignment, not while
\* it answers; and no step of a file write touches the lock. So the lock a
\* Get, a List or an Upsert meets while a file is being written is free
\* unless another handler has it.
C25_NoLockDuringFileWrite ==
    /\ [](readers \cap SaveIds = {s \in SaveIds : pc[s] = "s_marshal"})
    /\ [](\A t \in Tasks : wmu = t => pc[t] \in {"u_wait", "u_write", "u_panic"})
    /\ [](\A t \in Tasks : t \in readers => pc[t] \in {"g_read", "l_read"})
    /\ []((InFileWrite # {} /\ \A t \in Tasks : pc[t] \notin {"u_wait", "u_write", "u_panic"})
            => wmu = NoWriter)
    /\ [][\A s \in InFileWrite :
            (pc'[s] # pc[s] /\ booted') => wmu' = wmu /\ readers' = readers]_vars

\* While the first save is between truncating the file and writing it, a Get
\* is inside its read section and the next Upsert has announced itself at the
\* lock.
C25_Witness ==
    /\ pc[NTasks + 1] = "s_write"
    /\ pc[2] = "g_read" /\ 2 \in readers
    /\ pc[1] = "u_wait" /\ wmu = 1

\* A handler inside a registry operation, and a save that has started.
InOperation(t) == pc[t] \notin {"idle", "done"}
SaveStarted(s) == pc[s] \notin {"s_none", "s_done", "s_failed"}

\* C26: every Upsert, Get and List that a handler has started is answered,
\* and every save that was spawned ends, with the lock free of it.
C26_EveryOperationCompletes ==
    /\ \A t \in Tasks :
          InOperation(t) ~> (pc[t] = "done" /\ wmu # t /\ t \notin readers)
    /\ \A s \in SaveIds :
          SaveStarted(s) ~> (pc[s] \in {"s_done", "s_failed"} /\ s \notin readers)

\* C27: a run sends a report exactly when the current address info differs
\* from the last-reported info; after a report that the server took (200) the
\* last-reported info is the current info; after a run that sent nothing, or
\* whose report failed, the last-reported info is what it was.
C27_AgentProtocol ==
    [][agent'.runs # agent.runs
          => /\ agent'.run.sent = (agent'.run.current # LastIpInfo)
             /\ (agent'.run.sent /\ agent'.run.outcome = "200")
                   => agent'.lastIp = agent'.run.current
             /\ ~(agent'.run.sent /\ agent'.run.outcome = "200")
                   => agent'.lastIp = LastIpInfo]_vars

\* C28: every entry of the registry has a hostname that is not empty and a
\* record in which localIp or publicIp is not empty.
C28_StoredRecordsValid ==
    \A h \in DOMAIN devices :
        /\ h # ""
        /\ devices[h].LocalIP # "" \/ devices[h].PublicIP # ""

\* The registry holds a record with one address only, and a report without
\* any address has just been refused.
C28_Witness ==
    /\ DOMAIN devices = {"h1"}
    /\ devices["h1"].LocalIP = "" /\ devices["h1"].PublicIP # ""
    /\ pc[1] = "done" /\ resp[1].status = 400
    /\ req[1].body.hostname = "h1" /\ NoAddress(req[1].body)

\* C29: the snapshot a save has taken is a value the registry has held since
\* the write of the update that spawned it (that value or a later one): it
\* holds the hostname of that update, with the record of that update or of an
\* Upsert of that hostname that wrote later; it holds every hostname the
\* registry held when that write completed; and it is what the save goes on
\* to write.
C29_SnapshotNotOlder ==
    \A s \in Captured :
        /\ spawned[s].snap \in spawned[s].after
        /\ spawned[s].hostname \in DOMAIN spawned[s].snap
        /\ \/ spawned[s].snap[spawned[s].hostname] = spawned[s].asOf[spawned[s].hostname]
           \/ \E m \in spawned[s].after \ {spawned[s].asOf} :
                 spawned[s].snap[spawned[s].hostname] = m[spawned[s].hostname]
        /\ \A h \in DOMAIN spawned[s].asOf : h \in DOMAIN spawned[s].snap
        /\ saveData[s] = Marshal(spawned[s].snap)

\* The save of an update of h1 has taken a snapshot in which h1 has the record
\* of the Upsert that wrote after it.
C29_Witness ==
    \E s \in Captured :
        /\ spawned[s].hostname = "h1"
        /\ spawned[s].snap["h1"] # spawned[s].asOf["h1"]
        /\ spawned[s].snap["h1"] = devices["h1"]
        /\ applied["h1"].by # spawned[s].by

Opened == {s \in SaveIds : pc[s] \in {"s_write", "s_done"}}
SavesAtRest == \A s \in SaveIds : pc[s] \in {"s_none", "s_done"}

\* C9: once a save has written, and while no save is between opening the file
\* and the end of its write, the file holds the whole mapping the registry
\* held at one earlier instant.
C9_CompleteSnapshot ==
    (\E s \in SaveIds : pc[s] = "s_done") /\ (\A s \in SaveIds : pc[s] # "s_write")
        /\ (\A s \in SaveIds : pc[s] # "s_failed")
        => \E m \in hist : file.data = Marshal(m)

\* C10: once every Upsert has returned and every save spawned has completed
\* with success, the file holds the registry as it is.
C10_LastSaveCurrent ==
    (/\ \A t \in Tasks : pc[t] \notin UpdatePcs
     /\ SavesAtRest
     /\ \E s \in SaveIds : pc[s] = "s_done")
        => file.data = Marshal(devices)

====
